---- MODULE Spec2Model ----
(***************************************************************************)
(* Model of validate_schedule (src/validator.py): the reconciliation of a  *)
(* submitted contribution schedule against two registry views.             *)
(*                                                                         *)
(* Text cells are sequences of one-character strings; a missing cell (a    *)
(* pandas NaN) is the value NaN.  Numeric cells are records [k, v]: k is   *)
(* "num" (v is the number), "nan" (missing) or "text" (not a number).      *)
(* Amounts are counted in pesewas (1/100 GHS), so 539.80 is 53980.         *)
(* The similarity score is counted in hundredths of a point, so 85 is 8500.*)
(***************************************************************************)
EXTENDS Integers, Sequences, FiniteSets, TLC

VARIABLES in_schedule, in_filtered, in_scheme,
          schedule_df, filtered_df, scheme_df,
          rows, i, pc, log, result

vars == <<in_schedule, in_filtered, in_scheme, schedule_df, filtered_df,
          scheme_df, rows, i, pc, log, result>>

(***************************************************************************)
(* Bounds of the model.                                                    *)
(***************************************************************************)
MaxRows == 2
MaxReg == 2

(***************************************************************************)
(* Constants of the program.                                               *)
(***************************************************************************)
strict_threshold == 85
loose_threshold == 50
MinSalary == 53980
MaxSalary == 6100000
Tolerance == 50
RatePercent == 5
SchemeLen == 13

(***************************************************************************)
(* Strings.                                                                *)
(***************************************************************************)
NaN == <<"NaN">>
NanStr == <<"n", "a", "n">>
EmptyStr == <<>>

\* The characters of the model in code-point order.
Chars == <<" ", ",", "-", ".", "0", "1", "2", "9", "A", "B", "C", "G", "O",
           "P", "S", "a", "b", "c", "d", "g", "n", "o", "p", "s", "x", "y">>

Ord(c) == CHOOSE k \in 1..Len(Chars) : Chars[k] = c

IsSpace(c) == c = " "

\* \w of the regular expression [^\w]: letters, digits and the underscore.
IsWord(c) == c \notin {" ", ",", "-", "."}

LowerChar(c) ==
    CASE c = "A" -> "a" [] c = "B" -> "b" [] c = "C" -> "c" [] c = "G" -> "g"
      [] c = "O" -> "o" [] c = "P" -> "p" [] c = "S" -> "s" [] OTHER -> c

Lower(s) == [k \in 1..Len(s) |-> LowerChar(s[k])]

\* Series.astype(str): a missing cell becomes the text "nan".
AsTypeStr(x) == IF x = NaN THEN NanStr ELSE x

RECURSIVE LStrip(_)
LStrip(s) == IF s /= <<>> /\ IsSpace(Head(s)) THEN LStrip(Tail(s)) ELSE s

RECURSIVE RStrip(_)
RStrip(s) ==
    IF s /= <<>> /\ IsSpace(s[Len(s)]) THEN RStrip(SubSeq(s, 1, Len(s) - 1)) ELSE s

Strip(s) == RStrip(LStrip(s))

\* str.replace(old, " ", regex=False) for a one-character old.
ReplaceChar(s, old) == [k \in 1..Len(s) |-> IF s[k] = old THEN " " ELSE s[k]]

\* str.replace(r"\s+", " ", regex=True)
RECURSIVE CollapseSpaces(_)
CollapseSpaces(s) ==
    IF s = <<>> THEN <<>>
    ELSE IF IsSpace(Head(s))
         THEN <<" ">> \o CollapseSpaces(LStrip(s))
         ELSE <<Head(s)>> \o CollapseSpaces(Tail(s))

\* str.replace(r"[^\w]", "", regex=True)
StripNonWord(s) == SelectSeq(s, IsWord)

\* a < b in the order of Python strings.
RECURSIVE StrLess(_, _)
StrLess(a, b) ==
    IF b = <<>> THEN FALSE
    ELSE IF a = <<>> THEN TRUE
    ELSE IF Head(a) = Head(b) THEN StrLess(Tail(a), Tail(b))
    ELSE Ord(Head(a)) < Ord(Head(b))

\* str.split(): the maximal runs of non-space characters.
RECURSIVE Split(_)
Split(s) ==
    LET t == LStrip(s)
        n == IF \E k \in 1..Len(t) : IsSpace(t[k])
             THEN (CHOOSE k \in 1..Len(t) :
                       IsSpace(t[k]) /\ \A m \in 1..(k - 1) : ~IsSpace(t[m])) - 1
             ELSE Len(t)
    IN  IF t = <<>> THEN <<>>
        ELSE <<SubSeq(t, 1, n)>> \o Split(SubSeq(t, n + 1, Len(t)))

RECURSIVE InsertSorted(_, _)
InsertSorted(tok, ts) ==
    IF ts = <<>> THEN <<tok>>
    ELSE IF StrLess(tok, Head(ts)) THEN <<tok>> \o ts
    ELSE <<Head(ts)>> \o InsertSorted(tok, Tail(ts))

\* sorted(tokens)
RECURSIVE Sorted(_)
Sorted(ts) == IF ts = <<>> THEN <<>> ELSE InsertSorted(Head(ts), Sorted(Tail(ts)))

\* " ".join(tokens)
RECURSIVE Join(_)
Join(ts) ==
    IF ts = <<>> THEN <<>>
    ELSE IF Len(ts) = 1 THEN Head(ts)
    ELSE Head(ts) \o <<" ">> \o Join(Tail(ts))

\* lambda name: " ".join(sorted(str(name).split()))
SortTokens(s) == Join(Sorted(Split(s)))

(***************************************************************************)
(* Field Normalizer.                                                       *)
(***************************************************************************)
clean_name(x) ==
    CollapseSpaces(ReplaceChar(ReplaceChar(Lower(Strip(AsTypeStr(x))), "."), ","))

\* fillna('') of the three name parts, ' '.join, strip, collapse.
build_full_name(e) ==
    LET part(x) == IF x = NaN THEN EmptyStr ELSE x
    IN  CollapseSpaces(Strip(part(e.FirstName) \o <<" ">> \o part(e.MiddleName)
                             \o <<" ">> \o part(e.LastName)))

\* .astype(str).str.strip().str.replace(r"[^\w]", "", regex=True)
CleanId(x) == StripNonWord(Strip(AsTypeStr(x)))

NumCell(n) == [k |-> "num", v |-> n]
NanCell == [k |-> "nan", v |-> 0]
TextCell == [k |-> "text", v |-> 0]

\* pd.to_numeric(errors='coerce')
to_numeric(c) == IF c.k = "num" THEN c ELSE NanCell

\* pd.isna of a cell: text is never NaN, a numeric cell is when it is missing.
isna_num(c) == c.k = "nan"
isna_str(x) == x = NaN

(***************************************************************************)
(* Similarity Scorer (rapidfuzz).                                          *)
(***************************************************************************)
Max(a, b) == IF a >= b THEN a ELSE b

RECURSIVE LCS(_, _)
LCS(a, b) ==
    IF a = <<>> \/ b = <<>> THEN 0
    ELSE IF Head(a) = Head(b) THEN 1 + LCS(Tail(a), Tail(b))
    ELSE Max(LCS(Tail(a), b), LCS(a, Tail(b)))

\* fuzz.ratio: the normalized Indel similarity, in hundredths of a point.
ratio(a, b) ==
    IF Len(a) + Len(b) = 0 THEN 10000
    ELSE (20000 * LCS(a, b)) \div (Len(a) + Len(b))

token_sort_ratio(s1, s2) == ratio(SortTokens(s1), SortTokens(s2))

(***************************************************************************)
(* The status vocabulary.  A Validation Status is the sequence of its tags *)
(* ("; ".join(status)); the empty sequence is the empty string.            *)
(***************************************************************************)
Tag(t, key, txt, num) == [tag |-> t, key |-> key, txt |-> txt, num |-> num]

FlagMissing == Tag("FLAG_MISSING", "", EmptyStr, 0)
FlagRange == Tag("FLAG_RANGE", "", EmptyStr, 0)
FlagContribution(expected) == Tag("FLAG_CONTRIB", "", EmptyStr, expected)
ValidDirect == Tag("VALID_DIRECT", "", EmptyStr, 0)
WarnIncorrect(scheme, db_name) == Tag("WARN_INCORRECT", "", db_name, 0)
WarnNotFound(scheme) == Tag("WARN_NOTFOUND", "", scheme, 0)
ValidKey(id_type, matched_name) == Tag("VALID_KEY", id_type, matched_name, 0)
InfoFuzzy(matched_name, score) == Tag("INFO_FUZZY", "", matched_name, score)
NoticeUnregistered == Tag("NOTICE", "", EmptyStr, 0)
NameMismatch(score) == Tag("NAME_MISMATCH", "", EmptyStr, score)

(***************************************************************************)
(* Business Rule Checker (validate_schedule, step 1).                      *)
(***************************************************************************)
Abs(x) == IF x < 0 THEN -x ELSE x

\* Expected without the rounding: the product cut to whole pesewas.
Expected_Truncated(salary) == (salary * RatePercent) \div 100

\* round(salary * 0.05, 2), in pesewas: to the nearest, half to even.  (The
\* code rounds the binary product, which decides an exact half by its
\* representation; the salaries of the model have no exact half.)
Expected(salary) ==
    LET q == (salary * RatePercent) \div 100
        r == (salary * RatePercent) % 100
    IN  IF r > 50 \/ (r = 50 /\ q % 2 = 1) THEN q + 1 ELSE q

\* "ops" in str(scheme).lower()
HasOps(scheme) ==
    \E k \in 1..(Len(scheme) - 2) : SubSeq(Lower(scheme), k, k + 2) = <<"o", "p", "s">>

\* BusinessFlag without the salary range check.
BusinessFlag_RangePasses(row) ==
    IF isna_num(row.Salary) \/ isna_num(row.Tier2Contribution)
    THEN <<FlagMissing>>
    ELSE IF Abs(row.Tier2Contribution.v - Expected(row.Salary.v)) > Tolerance
            /\ HasOps(row.SchemeNumber)
    THEN <<FlagContribution(Expected(row.Salary.v))>>
    ELSE <<>>

\* BusinessFlag without the check for missing amounts.
BusinessFlag_MissingPasses(row) ==
    IF ~(MinSalary <= row.Salary.v /\ row.Salary.v <= MaxSalary)
    THEN <<FlagRange>>
    ELSE IF Abs(row.Tier2Contribution.v - Expected(row.Salary.v)) > Tolerance
            /\ HasOps(row.SchemeNumber)
    THEN <<FlagContribution(Expected(row.Salary.v))>>
    ELSE <<>>

\* BusinessFlag with the salary bounds exclusive.
BusinessFlag_ExclusiveBounds(row) ==
    IF isna_num(row.Salary) \/ isna_num(row.Tier2Contribution)
    THEN <<FlagMissing>>
    ELSE IF ~(MinSalary < row.Salary.v /\ row.Salary.v < MaxSalary)
    THEN <<FlagRange>>
    ELSE IF Abs(row.Tier2Contribution.v - Expected(row.Salary.v)) > Tolerance
            /\ HasOps(row.SchemeNumber)
    THEN <<FlagContribution(Expected(row.Salary.v))>>
    ELSE <<>>

\* The flag the row is finished with, or <<>> when resolution goes on.
BusinessFlag(row) ==
    IF isna_num(row.Salary) \/ isna_num(row.Tier2Contribution)
    THEN <<FlagMissing>>
    ELSE IF ~(MinSalary <= row.Salary.v /\ row.Salary.v <= MaxSalary)
    THEN <<FlagRange>>
    ELSE IF Abs(row.Tier2Contribution.v - Expected(row.Salary.v)) > Tolerance
            /\ HasOps(row.SchemeNumber)
    THEN <<FlagContribution(Expected(row.Salary.v))>>
    ELSE <<>>

(***************************************************************************)
(* Identity Resolver.                                                      *)
(***************************************************************************)
\* The first position of df whose entry passes Test, or 0: match.iloc[0].
FirstWhere(df, Test(_)) ==
    IF \E j \in 1..Len(df) : Test(df[j])
    THEN CHOOSE j \in 1..Len(df) : Test(df[j]) /\ \A m \in 1..(j - 1) : ~Test(df[m])
    ELSE 0

ColVal(e, col) ==
    CASE col = "NIA Number" -> e.NIANumber
      [] col = "SSNIT Number" -> e.SSNITNumber
      [] col = "Contact" -> e.Contact

\* pd.isna(key_val)
KeyIsNa(col, key_val) ==
    IF col = "Contact" THEN isna_num(key_val) ELSE isna_str(key_val)

\* df[key_col] == key_val, for one entry: NaN equals nothing.
KeyEq(col, a, b) ==
    IF col = "Contact" THEN a.k = "num" /\ b.k = "num" /\ a.v = b.v
    ELSE a /= NaN /\ a = b

\* KeyMatch that takes the last of the entries with the key value.
KeyMatch_LastHit(df, key_col, key_val) ==
    IF \E j \in 1..Len(df) : KeyEq(key_col, ColVal(df[j], key_col), key_val)
    THEN CHOOSE j \in 1..Len(df) :
             /\ KeyEq(key_col, ColVal(df[j], key_col), key_val)
             /\ \A m \in (j + 1)..Len(df) : ~KeyEq(key_col, ColVal(df[m], key_col), key_val)
    ELSE 0

\* match = df[df[key_col] == key_val]: the position of match.iloc[0], or 0
\* when match is empty.
KeyMatch(df, key_col, key_val) ==
    LET Hit(e) == KeyEq(key_col, ColVal(e, key_col), key_val) IN FirstWhere(df, Hit)

\* Lines 67-72 with the name check left out.
ValidateName_AnyName(df, j, input_name, threshold) ==
    [row |-> j, looked |-> TRUE, first |-> j]

\* Lines 67-72: the entry at position j (0 for none) is returned when its
\* name scores at least threshold.
ValidateName(df, j, input_name, threshold) ==
    IF j /= 0 /\ token_sort_ratio(input_name, df[j].clean_name) >= threshold * 100
    THEN [row |-> j, looked |-> TRUE, first |-> j]
    ELSE [row |-> 0, looked |-> TRUE, first |-> j]

\* row is the position of the returned db_row (0 for None); looked tells
\* whether the registry was searched, first the position the search found.
find_and_validate_match(df, key_col, key_val, input_name, threshold) ==
    IF KeyIsNa(key_col, key_val)
    THEN [row |-> 0, looked |-> FALSE, first |-> 0]
    ELSE ValidateName(df, KeyMatch(df, key_col, key_val), input_name, threshold)

WellFormed(scheme) ==
    /\ scheme /= EmptyStr
    /\ Len(scheme) = SchemeLen
    /\ SubSeq(scheme, 1, 4) = <<"1", "0", "1", "0">>

\* match_row = scheme_df[scheme_df['Scheme Number'] == scheme]: the position
\* of match_row.iloc[0], or 0 when match_row is empty.
SchemeMatch(sdf, scheme) ==
    LET Hit(e) == e.SchemeNumber /= NaN /\ e.SchemeNumber = scheme
    IN  FirstWhere(sdf, Hit)

DirectAccepted(j) ==
    [status |-> <<ValidDirect>>, matched |-> j, scheme_mismatch |-> FALSE,
     looked |-> TRUE, first |-> j]

DirectRejected(status, j, looked) ==
    [status |-> status, matched |-> 0, scheme_mismatch |-> TRUE, looked |-> looked,
     first |-> j]

\* DirectConfirm with the strict threshold in place of the loose one.
DirectConfirm_Strict(row, sdf, j) ==
    IF j /= 0
    THEN IF token_sort_ratio(row.clean_name, sdf[j].clean_name) >= strict_threshold * 100
         THEN DirectAccepted(j)
         ELSE DirectRejected(<<WarnIncorrect(row.SchemeNumber, sdf[j].clean_name)>>, j, TRUE)
    ELSE DirectRejected(<<WarnNotFound(row.SchemeNumber)>>, 0, TRUE)

\* DirectConfirm without the name check.
DirectConfirm_AnyName(row, sdf, j) ==
    IF j /= 0
    THEN DirectAccepted(j)
    ELSE DirectRejected(<<WarnNotFound(row.SchemeNumber)>>, 0, TRUE)

\* Lines 154-166: the entry at position j (0 for none) confirms the row when
\* its name scores at least the loose threshold.
DirectConfirm(row, sdf, j) ==
    IF j /= 0
    THEN IF token_sort_ratio(row.clean_name, sdf[j].clean_name) >= loose_threshold * 100
         THEN DirectAccepted(j)
         ELSE DirectRejected(<<WarnIncorrect(row.SchemeNumber, sdf[j].clean_name)>>, j, TRUE)
    ELSE DirectRejected(<<WarnNotFound(row.SchemeNumber)>>, 0, TRUE)

\* The direct scheme match: the tags it adds, the matched position in
\* scheme_df (0 for None) and scheme_mismatch.
DirectSchemeMatch(row, sdf) ==
    IF WellFormed(row.SchemeNumber)
    THEN DirectConfirm(row, sdf, SchemeMatch(sdf, row.SchemeNumber))
    ELSE DirectRejected(<<>>, 0, FALSE)

\* KeyOrder with the contact first.
KeyOrder_ContactFirst == << <<"Contact", "Contact">>, <<"Ghana Card", "NIA Number">>,
                            <<"SSNIT", "SSNIT Number">> >>

\* for id_type, col in [('Ghana Card', 'NIA Number'), ...]
KeyOrder == << <<"Ghana Card", "NIA Number">>, <<"SSNIT", "SSNIT Number">>,
               <<"Contact", "Contact">> >>

KeyEvent(col, r) ==
    [step |-> "key", col |-> col, looked |-> r.looked, first |-> r.first,
     accepted |-> r.row /= 0]

KeysPrepend(ev, rest) == [rest EXCEPT !.events = <<ev>> \o @]

\* The loop over the keys from position k on: stops at the first accepted key.
RECURSIVE KeyFallback(_, _, _)

\* One turn of the loop, r being what find_and_validate_match returned.
KeyTurn(row, sdf, k, r) ==
    IF r.row /= 0
    THEN [matched |-> r.row, id_type |-> KeyOrder[k][1],
          events |-> <<KeyEvent(KeyOrder[k][2], r)>>]
    ELSE KeysPrepend(KeyEvent(KeyOrder[k][2], r), KeyFallback(row, sdf, k + 1))

KeyFallback(row, sdf, k) ==
    IF k > Len(KeyOrder)
    THEN [matched |-> 0, id_type |-> "", events |-> <<>>]
    ELSE KeyTurn(row, sdf, k,
                 find_and_validate_match(sdf, KeyOrder[k][2], ColVal(row, KeyOrder[k][2]),
                                         row.clean_name, strict_threshold))

\* The first position of the highest of scores.
BestOf(scores) ==
    CHOOSE j \in 1..Len(scores) :
        /\ \A m \in 1..Len(scores) : scores[m] <= scores[j]
        /\ \A m \in 1..(j - 1) : scores[m] < scores[j]

Extracted(scores, best) == [found |-> TRUE, index |-> best, score |-> scores[best]]

ExtractBest(scores) ==
    IF scores = <<>> THEN [found |-> FALSE, index |-> 0, score |-> 0]
    ELSE Extracted(scores, BestOf(scores))

\* process.extractOne(name, choices, scorer=fuzz.token_sort_ratio): the first
\* choice of the highest score, or nothing when there is no choice.
extractOne(name, choices) ==
    ExtractBest([j \in 1..Len(choices) |-> token_sort_ratio(name, choices[j])])

\* filtered_df[filtered_df['clean_name'] == matched_name].iloc[0]
NameMatch(fdf, matched_name) ==
    LET Same(e) == e.clean_name = matched_name IN FirstWhere(fdf, Same)

FuzzyAccepted(fdf, j, score) ==
    [matched |-> j, status |-> <<InfoFuzzy(fdf[j].clean_name, score)>>]

\* FuzzyDecide with the loose threshold in place of the strict one.
FuzzyDecide_Loose(fdf, match) ==
    IF match.found /\ match.score >= loose_threshold * 100
    THEN FuzzyAccepted(fdf, NameMatch(fdf, fdf[match.index].clean_name), match.score)
    ELSE [matched |-> 0, status |-> <<NoticeUnregistered>>]

\* FuzzyDecide that adds no notice when nothing is accepted.
FuzzyDecide_SilentMiss(fdf, match) ==
    IF match.found /\ match.score >= strict_threshold * 100
    THEN FuzzyAccepted(fdf, NameMatch(fdf, fdf[match.index].clean_name), match.score)
    ELSE [matched |-> 0, status |-> <<>>]

\* Lines 184-194: what is done with the result of extractOne.
FuzzyDecide(fdf, match) ==
    IF match.found /\ match.score >= strict_threshold * 100
    THEN FuzzyAccepted(fdf, NameMatch(fdf, fdf[match.index].clean_name), match.score)
    ELSE [matched |-> 0, status |-> <<NoticeUnregistered>>]

\* The fuzzy name match over filtered_df: the matched position (0 for None),
\* and the tag.
FuzzyNameMatch(row, fdf) ==
    FuzzyDecide(fdf, extractOne(row.clean_name, [j \in 1..Len(fdf) |-> fdf[j].clean_name]))

(***************************************************************************)
(* Reconciliation Engine: one pass of the loop body for one row.           *)
(***************************************************************************)
Event(step, col, looked, first, accepted) ==
    [step |-> step, col |-> col, looked |-> looked, first |-> first,
     accepted |-> accepted]

NoKeys == [matched |-> 0, id_type |-> "", events |-> <<>>]
NoFuzzy == [matched |-> 0, status |-> <<>>]

Outcome(terminal, status, match_type, overwrite, new_scheme, events) ==
    [terminal |-> terminal, status |-> status, match_type |-> match_type,
     overwrite |-> overwrite, new_scheme |-> new_scheme, events |-> events]

\* WithNameCheck with the strict threshold in place of the loose one.
WithNameCheck_Strict(out, score) ==
    IF score < strict_threshold * 100
    THEN [out EXCEPT !.status = @ \o <<NameMismatch(score)>>]
    ELSE out

\* Lines 196-198: the last check of the name against matched_row, score
\* being the similarity of the row's name and the matched entry's.
WithNameCheck(out, score) ==
    IF score < loose_threshold * 100
    THEN [out EXCEPT !.status = @ \o <<NameMismatch(score)>>]
    ELSE out

\* The outcome of a row that the direct match accepted.
DirectOutcome(row, sdf, d) ==
    WithNameCheck(
        Outcome(FALSE, d.status, "Direct Scheme", FALSE, sdf[d.matched].SchemeNumber,
                <<Event("direct", "Scheme Number", d.looked, d.first, TRUE)>>),
        token_sort_ratio(row.clean_name, sdf[d.matched].clean_name))

\* The outcome of a row that a key of the fallback accepted.
KeyOutcome(row, sdf, d, keys) ==
    WithNameCheck(
        Outcome(FALSE,
                d.status \o <<ValidKey(keys.id_type, sdf[keys.matched].clean_name)>>,
                keys.id_type, TRUE, sdf[keys.matched].SchemeNumber,
                <<Event("direct", "Scheme Number", d.looked, d.first, FALSE)>>
                \o keys.events),
        token_sort_ratio(row.clean_name, sdf[keys.matched].clean_name))

\* The outcome of a row that went to the fuzzy name match.
FuzzyOutcome(row, fdf, d, keys, fuzzy) ==
    IF fuzzy.matched /= 0
    THEN WithNameCheck(
             Outcome(FALSE, d.status \o fuzzy.status, "Fuzzy Name", TRUE,
                     fdf[fuzzy.matched].SchemeNumber,
                     <<Event("direct", "Scheme Number", d.looked, d.first, FALSE)>>
                     \o keys.events
                     \o <<Event("fuzzy", "clean_name", TRUE, fuzzy.matched, TRUE)>>),
             token_sort_ratio(row.clean_name, fdf[fuzzy.matched].clean_name))
    ELSE Outcome(FALSE, d.status \o fuzzy.status, "", FALSE, EmptyStr,
                 <<Event("direct", "Scheme Number", d.looked, d.first, FALSE)>>
                 \o keys.events
                 \o <<Event("fuzzy", "clean_name", TRUE, 0, FALSE)>>)

\* Lines 170-194, keys being what the loop over the keys found.
AfterKeys(row, fdf, sdf, d, keys) ==
    IF keys.matched /= 0
    THEN KeyOutcome(row, sdf, d, keys)
    ELSE FuzzyOutcome(row, fdf, d, keys, FuzzyNameMatch(row, fdf))

\* Lines 170-198, d being what the direct scheme match found.
AfterDirect(row, fdf, sdf, d) ==
    IF d.scheme_mismatch /\ d.matched = 0
    THEN AfterKeys(row, fdf, sdf, d, KeyFallback(row, sdf, 1))
    ELSE DirectOutcome(row, sdf, d)

\* Lines 147-198: identity resolution of a row without business flag.
Resolve(row, fdf, sdf) == AfterDirect(row, fdf, sdf, DirectSchemeMatch(row, sdf))

\* Lines 133-198, flag being what the business check found.
AfterBusinessCheck(row, fdf, sdf, flag) ==
    IF flag /= <<>>
    THEN Outcome(TRUE, flag, "", FALSE, EmptyStr, <<>>)
    ELSE Resolve(row, fdf, sdf)

\* What the loop body decides for row (a row of the iterrows snapshot):
\* the status tags, the match type, whether and with what the Scheme Number
\* is overwritten, whether the row was finished by a business flag, and
\* the resolution steps that ran, in order.
RowOutcome(row, fdf, sdf) == AfterBusinessCheck(row, fdf, sdf, BusinessFlag(row))

(***************************************************************************)
(* Table operations.                                                       *)
(***************************************************************************)
\* The registry copy of lines 94-101: derived name, stripped ids, numeric contact.
PrepareDump(df) ==
    [j \in 1..Len(df) |->
        [FirstName |-> df[j].FirstName, MiddleName |-> df[j].MiddleName,
         LastName |-> df[j].LastName, SchemeNumber |-> df[j].SchemeNumber,
         clean_name |-> SortTokens(clean_name(build_full_name(df[j]))),
         NIANumber |-> CleanId(df[j].NIANumber),
         SSNITNumber |-> CleanId(df[j].SSNITNumber),
         Contact |-> to_numeric(df[j].Contact)]]

\* The schedule copy of lines 105-120.
PrepareSchedule(df) ==
    [j \in 1..Len(df) |->
        [index |-> j,
         MemberName |-> df[j].MemberName,
         clean_name |-> SortTokens(clean_name(df[j].MemberName)),
         NIANumber |-> CleanId(df[j].NIANumber),
         SSNITNumber |-> CleanId(df[j].SSNITNumber),
         SchemeNumber |-> CleanId(df[j].SchemeNumber),
         Contact |-> to_numeric(df[j].Contact),
         Salary |-> to_numeric(df[j].Salary),
         Tier2Contribution |-> to_numeric(df[j].Tier2Contribution),
         ValidationStatus |-> <<>>,
         MatchType |-> ""]]

\* .astype(str).replace("nan", "") of a text cell and of a numeric cell.
StrNoNan(x) == IF AsTypeStr(x) = NanStr THEN EmptyStr ELSE AsTypeStr(x)

NumStrNoNan(c) ==
    IF c.k = "num" THEN [k |-> "str", v |-> c.v]
    ELSE IF c.k = "nan" THEN [k |-> "empty", v |-> 0]
    ELSE c

\* Lines 202-203, over the whole table.
StringifyKeys(df) ==
    [j \in 1..Len(df) |->
        [df[j] EXCEPT !.SSNITNumber = StrNoNan(@), !.NIANumber = StrNoNan(@),
                      !.Contact = NumStrNoNan(@), !.SchemeNumber = StrNoNan(@)]]

\* DataFrame.fillna("")
FillNa(df) ==
    LET text(x) == IF x = NaN THEN EmptyStr ELSE x
        num(c) == IF c.k = "nan" THEN [k |-> "empty", v |-> 0] ELSE c
    IN  [j \in 1..Len(df) |->
            [df[j] EXCEPT !.MemberName = text(@), !.SchemeNumber = text(@),
                          !.NIANumber = text(@), !.SSNITNumber = text(@),
                          !.Contact = num(@), !.Salary = num(@),
                          !.Tier2Contribution = num(@)]]

\* The order of the status texts by their leading characters.
TagRank(t) ==
    CASE t = "WARN_INCORRECT" -> 1 [] t = "WARN_NOTFOUND" -> 2
      [] t = "FLAG_RANGE" -> 3 [] t = "FLAG_CONTRIB" -> 4 [] t = "FLAG_MISSING" -> 5
      [] t = "VALID_DIRECT" -> 6 [] t = "VALID_KEY" -> 7
      [] t = "INFO_FUZZY" -> 8 [] t = "NOTICE" -> 9 [] OTHER -> 0

RECURSIVE StatusLess(_, _)
StatusLess(a, b) ==
    IF b = <<>> THEN FALSE
    ELSE IF a = <<>> THEN TRUE
    ELSE IF TagRank(Head(a).tag) = TagRank(Head(b).tag)
         THEN StatusLess(Tail(a), Tail(b))
    ELSE TagRank(Head(a).tag) < TagRank(Head(b).tag)

RowLess(a, b) ==
    \/ StrLess(a.MemberName, b.MemberName)
    \/ a.MemberName = b.MemberName /\ StatusLess(a.ValidationStatus, b.ValidationStatus)

RECURSIVE InsertRow(_, _)
InsertRow(x, ts) ==
    IF ts = <<>> THEN <<x>>
    ELSE IF ~RowLess(Head(ts), x) THEN <<x>> \o ts
    ELSE <<Head(ts)>> \o InsertRow(x, Tail(ts))

\* sort_values(by=["Member Name", "Validation Status"]): stable.
RECURSIVE sort_values(_)
sort_values(df) ==
    IF df = <<>> THEN <<>> ELSE InsertRow(Head(df), sort_values(Tail(df)))

(***************************************************************************)
(* The inputs of the model.                                                *)
(***************************************************************************)
Zeros(n) == [k \in 1..n |-> "0"]

\* "1010000000001", the same with a dash, "1010OPS000002", "1010000000009"
Scheme1 == <<"1", "0", "1", "0">> \o Zeros(8) \o <<"1">>
Scheme1Dashed == <<"1", "0", "1", "0", "-">> \o Zeros(8) \o <<"1">>
SchemeOps == <<"1", "0", "1", "0", "O", "P", "S">> \o Zeros(5) \o <<"2">>
Scheme9 == <<"1", "0", "1", "0">> \o Zeros(8) \o <<"9">>

Entry(first, last, scheme, nia, ssnit, contact) ==
    [FirstName |-> first, MiddleName |-> NaN, LastName |-> last,
     SchemeNumber |-> scheme, NIANumber |-> nia, SSNITNumber |-> ssnit,
     Contact |-> contact]

\* The registry entries the views are drawn from: "ab c" with every key,
\* "ab cd" without a social-insurance number, and a nameless entry that
\* shares the scheme number and the national ID of the first.
EntryPool ==
    { Entry(<<"a", "b">>, <<"c">>, Scheme1, <<"G", "-", "1">>, <<"S", "1">>, NumCell(24)),
      Entry(<<"a", "b">>, <<"c", "d">>, SchemeOps, <<"G", "2">>, NaN, NumCell(25)),
      Entry(NaN, NaN, Scheme1, <<"G", "1">>, <<"-">>, TextCell) }

NamePool == { NaN, <<" ">>, <<"a", "b", " ", "c">>, <<"C", ".", "A", "B">>, <<"a", "b">> }

SchemePool == { NaN, Scheme1Dashed, SchemeOps, Scheme9 }

\* <<national ID, social-insurance number, contact>>
KeyPool ==
    { <<NaN, NaN, NanCell>>,
      <<<<"G", "-", "1">>, NaN, NanCell>>,
      <<NaN, <<"S", "1">>, NanCell>>,
      <<NaN, NaN, NumCell(24)>>,
      <<<<"G", "-", "1">>, <<"S", "1">>, NumCell(25)>>,
      <<<<"G", "2">>, <<"-">>, TextCell>>,
      <<<<"G", "9">>, <<"S", "9">>, NumCell(24)>> }

\* 539.79, 539.80, 539.91 (5% is 26.9955), 10,000, 61,000, 61,000.01
SalaryPool == { NanCell, TextCell, NumCell(53979), NumCell(53980), NumCell(53991),
                NumCell(1000000), NumCell(6100000), NumCell(6100001) }

\* 500.00, 450.00, 500.50, 500.51, 27.50, 27.51
Tier2Pool == { NanCell, NumCell(50000), NumCell(45000), NumCell(50050), NumCell(50051),
               NumCell(2750), NumCell(2751) }

Row(name, scheme, keys, salary, tier2) ==
    [SSNITNumber |-> keys[2], NIANumber |-> keys[1], Contact |-> keys[3],
     SchemeNumber |-> scheme, MemberName |-> name, Salary |-> salary,
     Tier2Contribution |-> tier2]

\* Rows that vary the identity fields with sound amounts, and rows that vary
\* the amounts with one identity.
RowPool ==
    { Row(n, s, k, NumCell(1000000), NumCell(50000)) :
          n \in NamePool, s \in SchemePool, k \in KeyPool }
    \cup
    { Row(<<"a", "b", " ", "c">>, s, <<<<"G", "-", "1">>, NaN, NanCell>>, sal, t) :
          s \in SchemePool \ {Scheme9}, sal \in SalaryPool, t \in Tier2Pool }

\* The rows of the batches of more than one row.
CoreRows ==
    { Row(<<"a", "b", " ", "c">>, NaN, <<NaN, NaN, NanCell>>, NanCell, NumCell(50000)),
      Row(<<"a", "b", " ", "c">>, Scheme1Dashed, <<NaN, NaN, NanCell>>,
          NumCell(1000000), NumCell(50000)),
      Row(<<"a", "b", " ", "c">>, NaN, <<<<"G", "-", "1">>, NaN, NanCell>>,
          NumCell(1000000), NumCell(50000)),
      Row(NaN, NaN, <<NaN, NaN, NanCell>>, NumCell(1000000), NumCell(50000)) }

SeqUpTo(S, n) == UNION { [1..m -> S] : m \in 0..n }

Batches == { <<r>> : r \in RowPool } \cup SeqUpTo(CoreRows, MaxRows)

\* The entries of s at the positions in keep, in order.
RECURSIVE Pick(_, _, _)
Pick(s, keep, k) ==
    IF k > Len(s) THEN <<>>
    ELSE (IF k \in keep THEN <<s[k]>> ELSE <<>>) \o Pick(s, keep, k + 1)

\* The employer's view is the scheme-wide view filtered by employer (app.py).
EmployerViews(s) == { Pick(s, keep, 1) : keep \in SUBSET (1..Len(s)) }

(***************************************************************************)
(* The state machine.                                                      *)
(***************************************************************************)
Init ==
    /\ in_schedule \in Batches
    /\ in_scheme \in SeqUpTo(EntryPool, MaxReg)
    /\ in_filtered \in EmployerViews(in_scheme)
    /\ schedule_df = <<>>
    /\ filtered_df = <<>>
    /\ scheme_df = <<>>
    /\ rows = <<>>
    /\ i = 0
    /\ pc = "start"
    /\ log = <<>>
    /\ result = <<>>

\* Prepare without the .copy() of line 94: the caller's views are renamed and
\* normalised in place.
Prepare_NoCopy ==
    /\ pc = "start"
    /\ in_filtered' = PrepareDump(in_filtered)
    /\ in_scheme' = PrepareDump(in_scheme)
    /\ filtered_df' = PrepareDump(in_filtered)
    /\ scheme_df' = PrepareDump(in_scheme)
    /\ schedule_df' = PrepareSchedule(in_schedule)
    /\ rows' = PrepareSchedule(in_schedule)
    /\ log' = [j \in 1..Len(in_schedule) |-> <<>>]
    /\ i' = 1
    /\ pc' = "loop"
    /\ UNCHANGED <<in_schedule, result>>

\* Lines 92-120: the copies are renamed and normalised; the loop starts on
\* a snapshot of the prepared rows (iterrows).
Prepare ==
    /\ pc = "start"
    /\ filtered_df' = PrepareDump(in_filtered)
    /\ scheme_df' = PrepareDump(in_scheme)
    /\ schedule_df' = PrepareSchedule(in_schedule)
    /\ rows' = PrepareSchedule(in_schedule)
    /\ log' = [j \in 1..Len(in_schedule) |-> <<>>]
    /\ i' = 1
    /\ pc' = "loop"
    /\ UNCHANGED <<in_schedule, in_filtered, in_scheme, result>>

\* ApplyOutcome that never writes the Scheme Number.
ApplyOutcome_KeepScheme(df, j, out) ==
    IF out.terminal
    THEN [df EXCEPT ![j].ValidationStatus = out.status]
    ELSE StringifyKeys(
             [df EXCEPT ![j].ValidationStatus = out.status,
                        ![j].MatchType = out.match_type])

\* ApplyOutcome that writes the Scheme Number whether or not an entry was
\* matched.
ApplyOutcome_AlwaysWrite(df, j, out) ==
    IF out.terminal
    THEN [df EXCEPT ![j].ValidationStatus = out.status]
    ELSE StringifyKeys(
             [df EXCEPT ![j].SchemeNumber = out.new_scheme,
                        ![j].ValidationStatus = out.status,
                        ![j].MatchType = out.match_type])

\* The table after the loop body has run for the row at position j.
ApplyOutcome(df, j, out) ==
    IF out.terminal
    THEN [df EXCEPT ![j].ValidationStatus = out.status]
    ELSE StringifyKeys(
             [df EXCEPT ![j].SchemeNumber = IF out.overwrite THEN out.new_scheme ELSE @,
                        ![j].ValidationStatus = out.status,
                        ![j].MatchType = out.match_type])

\* Lines 122-203: one iteration of the loop, out being what it decides.
ValidateRowWith(out) ==
    /\ schedule_df' = ApplyOutcome(schedule_df, i, out)
    /\ log' = [log EXCEPT ![i] = out.events]

ValidateRow ==
    /\ pc = "loop"
    /\ i <= Len(rows)
    /\ ValidateRowWith(RowOutcome(rows[i], filtered_df, scheme_df))
    /\ i' = i + 1
    /\ UNCHANGED <<in_schedule, in_filtered, in_scheme, filtered_df, scheme_df,
                   rows, pc, result>>

\* Line 205.
Return ==
    /\ pc = "loop"
    /\ i > Len(rows)
    /\ result' = sort_values(FillNa(schedule_df))
    /\ pc' = "done"
    /\ UNCHANGED <<in_schedule, in_filtered, in_scheme, schedule_df, filtered_df,
                   scheme_df, rows, i, log>>

Next == Prepare \/ ValidateRow \/ Return

Spec == Init /\ [][Next]_vars

(***************************************************************************)
(* Vocabulary of the properties.                                           *)
(***************************************************************************)
Done == pc = "done"

RowIds == 1..Len(in_schedule)

\* The returned row that came from the submitted row j.
Out(j) == result[CHOOSE k \in 1..Len(result) : result[k].index = j]

\* The submitted row j, by its raw cells.
MissingAmount(j) ==
    in_schedule[j].Salary.k /= "num" \/ in_schedule[j].Tier2Contribution.k /= "num"

OutOfRange(j) ==
    /\ ~MissingAmount(j)
    /\ (in_schedule[j].Salary.v < MinSalary \/ in_schedule[j].Salary.v > MaxSalary)

ContributionOff(j) ==
    /\ ~MissingAmount(j)
    /\ ~OutOfRange(j)
    /\ Abs(in_schedule[j].Tier2Contribution.v - Expected(in_schedule[j].Salary.v))
           > Tolerance

OpsScheme(j) == HasOps(rows[j].SchemeNumber)

\* Identity resolution ran for row j: its direct step is on record.
Resolved(j) == log[j] /= <<>>

Steps(j, step) == { k \in 1..Len(log[j]) : log[j][k].step = step }

Tags(status) == { status[k].tag : k \in 1..Len(status) }

ResolutionTags ==
    {"VALID_DIRECT", "WARN_INCORRECT", "WARN_NOTFOUND", "VALID_KEY", "INFO_FUZZY",
     "NOTICE"}

\* The Scheme Number row j was submitted with, normalised, blank for missing.
SubmittedScheme(j) ==
    IF rows[j].SchemeNumber = NanStr THEN EmptyStr ELSE rows[j].SchemeNumber

\* The first entry of the scheme-wide view with row j's scheme identifier.
SchemeHit(j) ==
    LET Hit(e) == e.SchemeNumber = rows[j].SchemeNumber IN FirstWhere(scheme_df, Hit)

NameScore(j, e) == token_sort_ratio(rows[j].clean_name, e.clean_name)

\* The first entry of the scheme-wide view with row j's value of the key col,
\* a missing contact equalling nothing.
KeyHit(j, col) ==
    LET Hit(e) ==
            IF col = "Contact"
            THEN rows[j].Contact.k = "num" /\ e.Contact.k = "num"
                 /\ e.Contact.v = rows[j].Contact.v
            ELSE ColVal(e, col) = ColVal(rows[j], col)
    IN  FirstWhere(scheme_df, Hit)

\* The lookup of row j by col alone is accepted.
KeyAccepts(j, col) ==
    KeyHit(j, col) /= 0 /\ NameScore(j, scheme_df[KeyHit(j, col)]) >= 8500

DirectAccepts(j) ==
    /\ Len(rows[j].SchemeNumber) = 13
    /\ SubSeq(rows[j].SchemeNumber, 1, 4) = <<"1", "0", "1", "0">>
    /\ SchemeHit(j) /= 0
    /\ NameScore(j, scheme_df[SchemeHit(j)]) >= 5000

\* The highest score of row j's name over the employer's view, 0 when empty.
BestFuzzy(j) ==
    IF filtered_df = <<>> THEN 0
    ELSE LET S == { NameScore(j, filtered_df[k]) : k \in 1..Len(filtered_df) }
         IN  CHOOSE x \in S : \A y \in S : y <= x

\* The first entry of the employer's view whose name scores highest.
BestFuzzyEntry(j) ==
    LET Best(e) == NameScore(j, e) = BestFuzzy(j) IN FirstWhere(filtered_df, Best)

(***************************************************************************)
(* C1.                                                                     *)
(***************************************************************************)
\* C1, as claimed: a row with an out-of-range salary or an incorrect
\* contribution still goes through identity resolution, and its final
\* status is the business-check tag followed by a resolution-outcome tag.
C1_FlagThenResolution ==
    Done =>
        \A j \in RowIds :
            (OutOfRange(j) \/ ContributionOff(j)) =>
                /\ Resolved(j)
                /\ Len(Out(j).ValidationStatus) >= 2
                /\ Out(j).ValidationStatus[1].tag \in {"FLAG_RANGE", "FLAG_CONTRIB"}
                /\ Out(j).ValidationStatus[2].tag \in ResolutionTags

\* C1, amended: an out-of-range salary finishes the row: its status is
\* exactly the out-of-range flag, its match type is empty and no resolution
\* step runs for it.  An incorrect contribution is recorded only when the
\* scheme identifier contains "ops", and then finishes the row the same
\* way; otherwise it is not recorded and resolution runs.
C1_FlagIsTerminal ==
    Done =>
        \A j \in RowIds :
            /\ OutOfRange(j) =>
                   /\ Out(j).ValidationStatus = <<FlagRange>>
                   /\ Out(j).MatchType = ""
                   /\ ~Resolved(j)
            /\ (ContributionOff(j) /\ OpsScheme(j)) =>
                   /\ Out(j).ValidationStatus
                          = <<FlagContribution(Expected(in_schedule[j].Salary.v))>>
                   /\ Out(j).MatchType = ""
                   /\ ~Resolved(j)
            /\ (ContributionOff(j) /\ ~OpsScheme(j)) =>
                   /\ Resolved(j)
                   /\ Tags(Out(j).ValidationStatus) \subseteq ResolutionTags

C1_Witness ==
    /\ Done
    /\ \E j \in RowIds :
           /\ OutOfRange(j)
           /\ KeyAccepts(j, "NIA Number")
           /\ Out(j).ValidationStatus = <<FlagRange>>
           /\ ~Resolved(j)

(***************************************************************************)
(* C2.                                                                     *)
(***************************************************************************)
\* C2: a row whose salary or contribution is missing after numeric coercion
\* ends with the missing-amount flag as its whole status, no resolution step
\* runs for it, and its Scheme Number is not overwritten by a registry value.
C2_MissingAmountIsTerminal ==
    \A j \in 1..(i - 1) :
        MissingAmount(j) =>
            /\ schedule_df[j].ValidationStatus = <<FlagMissing>>
            /\ schedule_df[j].MatchType = ""
            /\ ~Resolved(j)
            /\ schedule_df[j].SchemeNumber \in {rows[j].SchemeNumber, SubmittedScheme(j)}
            /\ Done =>
                   /\ Out(j).ValidationStatus = <<FlagMissing>>
                   /\ Out(j).SchemeNumber \in {rows[j].SchemeNumber, SubmittedScheme(j)}

C2_Witness ==
    /\ Done
    /\ \E j \in RowIds :
           /\ MissingAmount(j)
           /\ KeyAccepts(j, "NIA Number")
           /\ Out(j).ValidationStatus = <<FlagMissing>>
           /\ Out(j).SchemeNumber /= scheme_df[KeyHit(j, "NIA Number")].SchemeNumber

(***************************************************************************)
(* C3.                                                                     *)
(***************************************************************************)
\* The submitted cell of row j under the key col is missing or blank.
BlankKey(j, col) ==
    IF col = "Contact" THEN in_schedule[j].Contact.k /= "num"
    ELSE ColVal(in_schedule[j], col) = NaN \/ Strip(ColVal(in_schedule[j], col)) = EmptyStr

\* C3: in the key fallback a key whose submitted value is missing or blank
\* is skipped without a registry lookup, so it is never accepted as a match
\* (in particular not against an entry whose same key is blank too).
C3_BlankKeySkipped ==
    \A j \in 1..(i - 1) :
        \A k \in Steps(j, "key") :
            BlankKey(j, log[j][k].col) => ~log[j][k].accepted

(***************************************************************************)
(* C4.                                                                     *)
(***************************************************************************)
\* C4: a row that reaches identity resolution, whose scheme identifier is in
\* the scheme-wide view and whose name scores at least 50 against that
\* entry's name, ends with the confirmed-match tag as its status and match
\* type 'Direct Scheme'; no fallback step runs and its Scheme Number stays
\* the submitted one.
C4_DirectMatchConfirmed ==
    Done =>
        \A j \in RowIds :
            (/\ Resolved(j)
             /\ SchemeHit(j) /= 0
             /\ NameScore(j, scheme_df[SchemeHit(j)]) >= 5000) =>
                /\ Out(j).ValidationStatus = <<ValidDirect>>
                /\ Out(j).MatchType = "Direct Scheme"
                /\ Steps(j, "key") = {}
                /\ Steps(j, "fuzzy") = {}
                /\ Out(j).SchemeNumber = rows[j].SchemeNumber

\* A loose direct match (score below 85) of a row that a key would send to
\* another entry.
C4_Witness ==
    /\ Done
    /\ \E j \in RowIds :
           /\ SchemeHit(j) /= 0
           /\ NameScore(j, scheme_df[SchemeHit(j)]) >= 5000
           /\ NameScore(j, scheme_df[SchemeHit(j)]) < 8500
           /\ in_schedule[j].SchemeNumber /= rows[j].SchemeNumber
           /\ KeyHit(j, "NIA Number") \notin {0, SchemeHit(j)}
           /\ Out(j).MatchType = "Direct Scheme"

(***************************************************************************)
(* C5.                                                                     *)
(***************************************************************************)
ClaimKeyCols == <<"NIA Number", "SSNIT Number", "Contact">>
ClaimKeyNames == <<"Ghana Card", "SSNIT", "Contact">>

\* The first key, in the order Ghana Card, SSNIT, Contact, that accepts row j.
FirstAcceptingKey(j) ==
    CHOOSE k \in 1..3 :
        /\ KeyAccepts(j, ClaimKeyCols[k])
        /\ \A m \in 1..(k - 1) : ~KeyAccepts(j, ClaimKeyCols[m])

\* C5: a row that reaches identity resolution, whose scheme identifier is not
\* accepted by the direct match and for which some key lookup is accepted
\* (name similarity at least 85), gets the Scheme Number of the entry found
\* by the first accepting key in the order Ghana Card, SSNIT, Contact, and
\* that key as its match type.
C5_FirstKeyWins ==
    Done =>
        \A j \in RowIds :
            (/\ Resolved(j)
             /\ ~DirectAccepts(j)
             /\ \E k \in 1..3 : KeyAccepts(j, ClaimKeyCols[k])) =>
                LET k == FirstAcceptingKey(j)
                IN  /\ Out(j).MatchType = ClaimKeyNames[k]
                    /\ Out(j).SchemeNumber
                           = scheme_df[KeyHit(j, ClaimKeyCols[k])].SchemeNumber

\* The national-ID lookup finds an entry of another name, the
\* social-insurance lookup is accepted.
C5_Witness ==
    /\ Done
    /\ \E j \in RowIds :
           /\ ~DirectAccepts(j)
           /\ KeyHit(j, "NIA Number") /= 0
           /\ ~KeyAccepts(j, "NIA Number")
           /\ KeyAccepts(j, "SSNIT Number")
           /\ Out(j).MatchType = "SSNIT"
           /\ Out(j).SchemeNumber /= SubmittedScheme(j)

(***************************************************************************)
(* C6.                                                                     *)
(***************************************************************************)
\* C6: when the national-ID lookup and the contact lookup of a row in the
\* key fallback would each be accepted and find different entries, the
\* national-ID entry is selected, never the contact entry; and no key is
\* consulted after an accepted one.
C6_NationalIdBeforeContact ==
    Done =>
        \A j \in RowIds :
            /\ (/\ Steps(j, "key") /= {}
                /\ KeyAccepts(j, "NIA Number")
                /\ KeyAccepts(j, "Contact")
                /\ KeyHit(j, "NIA Number") /= KeyHit(j, "Contact")) =>
                   /\ Out(j).MatchType = "Ghana Card"
                   /\ Out(j).SchemeNumber
                          = scheme_df[KeyHit(j, "NIA Number")].SchemeNumber
                   /\ \A k \in Steps(j, "key") : log[j][k].col = "NIA Number"
            /\ \A k \in Steps(j, "key") :
                   log[j][k].accepted => \A m \in Steps(j, "key") : m <= k

C6_Witness ==
    /\ Done
    /\ \E j \in RowIds :
           /\ KeyAccepts(j, "NIA Number")
           /\ KeyAccepts(j, "Contact")
           /\ scheme_df[KeyHit(j, "NIA Number")].SchemeNumber
                  /= scheme_df[KeyHit(j, "Contact")].SchemeNumber
           /\ Out(j).MatchType = "Ghana Card"
           /\ Out(j).SchemeNumber = scheme_df[KeyHit(j, "NIA Number")].SchemeNumber

(***************************************************************************)
(* C7.                                                                     *)
(***************************************************************************)
WellFormedId(j) ==
    Len(rows[j].SchemeNumber) = 13 /\ SubSeq(rows[j].SchemeNumber, 1, 4) = <<"1", "0", "1", "0">>

\* C7: in identity resolution, a well-formed scheme identifier that is found
\* with a name similarity below 50 adds the mismatch warning, and one that
\* is not found adds the not-found warning; in both cases the row is not
\* accepted by the direct match and goes on to the key fallback.
C7_WarnAndFallThrough ==
    Done =>
        \A j \in RowIds :
            (Resolved(j) /\ WellFormedId(j)) =>
                /\ (SchemeHit(j) /= 0 /\ NameScore(j, scheme_df[SchemeHit(j)]) < 5000) =>
                       /\ Out(j).ValidationStatus[1]
                              = WarnIncorrect(rows[j].SchemeNumber,
                                              scheme_df[SchemeHit(j)].clean_name)
                       /\ Out(j).MatchType /= "Direct Scheme"
                       /\ Steps(j, "key") /= {}
                /\ SchemeHit(j) = 0 =>
                       /\ Out(j).ValidationStatus[1] = WarnNotFound(rows[j].SchemeNumber)
                       /\ Out(j).MatchType /= "Direct Scheme"
                       /\ Steps(j, "key") /= {}

\* The identifier belongs to an entry of another name, and a key then
\* resolves the row.
C7_Witness ==
    /\ Done
    /\ \E j \in RowIds :
           /\ WellFormedId(j)
           /\ SchemeHit(j) /= 0
           /\ NameScore(j, scheme_df[SchemeHit(j)]) < 5000
           /\ Out(j).ValidationStatus[1].tag = "WARN_INCORRECT"
           /\ Out(j).MatchType = "SSNIT"

(***************************************************************************)
(* C8.                                                                     *)
(***************************************************************************)
\* C8: the fuzzy name fallback runs only when no key lookup was accepted; it
\* accepts exactly when the highest score over the names of the employer's
\* view is at least 85, and then the row gets the fuzzy tag (and no
\* exact-key tag), match type 'Fuzzy Name' and the Scheme Number of the
\* first entry of the employer's view with the best-scoring name.
C8_FuzzyFallback ==
    Done =>
        \A j \in RowIds :
            /\ Steps(j, "fuzzy") /= {} =>
                   /\ \A k \in 1..3 : ~KeyAccepts(j, ClaimKeyCols[k])
                   /\ \A k \in Steps(j, "key") : ~log[j][k].accepted
            /\ Out(j).MatchType = "Fuzzy Name"
                   <=> (Steps(j, "fuzzy") /= {} /\ filtered_df /= <<>>
                        /\ BestFuzzy(j) >= 8500)
            /\ Out(j).MatchType = "Fuzzy Name" =>
                   /\ Out(j).SchemeNumber = filtered_df[BestFuzzyEntry(j)].SchemeNumber
                   /\ Out(j).ValidationStatus[Len(Out(j).ValidationStatus)]
                          = InfoFuzzy(filtered_df[BestFuzzyEntry(j)].clean_name,
                                      BestFuzzy(j))
                   /\ "VALID_KEY" \notin Tags(Out(j).ValidationStatus)
            /\ Out(j).MatchType /= "Fuzzy Name" =>
                   "INFO_FUZZY" \notin Tags(Out(j).ValidationStatus)

\* A fuzzy match on a near name (score below 100), with the scheme-wide view
\* holding an entry the employer's view does not.
C8_Witness ==
    /\ Done
    /\ Len(filtered_df) < Len(scheme_df)
    /\ \E j \in RowIds :
           /\ Out(j).MatchType = "Fuzzy Name"
           /\ BestFuzzy(j) < 10000
           /\ Out(j).SchemeNumber /= SubmittedScheme(j)

C10_Unregistered ==
    Done =>
        \A j \in RowIds :
            (/\ Resolved(j)
             /\ ~DirectAccepts(j)
             /\ \A k \in 1..3 : ~KeyAccepts(j, ClaimKeyCols[k])
             /\ BestFuzzy(j) < 8500) =>
                /\ Out(j).ValidationStatus[Len(Out(j).ValidationStatus)]
                       = NoticeUnregistered
                /\ Out(j).MatchType = ""
                /\ Out(j).SchemeNumber = SubmittedScheme(j)

\* A row without scheme identifier against a registry that holds its name
\* only loosely.
C10_Witness ==
    /\ Done
    /\ filtered_df /= <<>>
    /\ \E j \in RowIds :
           /\ in_schedule[j].SchemeNumber = NaN
           /\ BestFuzzy(j) >= 5000
           /\ BestFuzzy(j) < 8500
           /\ Out(j).ValidationStatus = <<NoticeUnregistered>>
           /\ Out(j).SchemeNumber = EmptyStr

(***************************************************************************)
(* C11.                                                                    *)
(***************************************************************************)
\* 5% of the salary to the nearest pesewa (no salary of the model has an
\* exact half).
NearestPesewa(salary) ==
    CHOOSE e \in {(5 * salary) \div 100, (5 * salary) \div 100 + 1} :
        2 * Abs(100 * e - 5 * salary) <= 100

ContributionTag(j) == FlagContribution(NearestPesewa(in_schedule[j].Salary.v))

DifferenceExceeds(j) ==
    Abs(in_schedule[j].Tier2Contribution.v - NearestPesewa(in_schedule[j].Salary.v)) > 50

HasContributionTag(j) == "FLAG_CONTRIB" \in Tags(Out(j).ValidationStatus)

\* C11, as claimed: every row with both amounts present gets the
\* incorrect-contribution tag, citing 5% of the salary rounded to 2
\* decimals, exactly when the reported contribution differs from that value
\* by more than 0.5.
C11_TagIffDifferenceExceeds ==
    Done =>
        \A j \in RowIds :
            ~MissingAmount(j) =>
                /\ HasContributionTag(j) <=> DifferenceExceeds(j)
                /\ HasContributionTag(j) => ContributionTag(j) \in
                       { Out(j).ValidationStatus[k] : k \in 1..Len(Out(j).ValidationStatus) }

\* C11, amended: a row with both amounts present and its salary within the
\* range gets the incorrect-contribution tag exactly when its scheme
\* identifier contains "ops" and the reported contribution differs from 5%
\* of the salary, rounded to 2 decimals, by more than 0.5; the tag is then
\* the whole status and cites that value.  A row with its salary out of
\* range never gets the tag.  With an "ops" identifier, 10,000 with 500.00
\* gets no tag and 10,000 with 450.00 gets the tag citing 500.00.
C11_OpsContributionCheck ==
    Done =>
        \A j \in RowIds :
            /\ (~MissingAmount(j) /\ ~OutOfRange(j)) =>
                   /\ HasContributionTag(j) <=> (OpsScheme(j) /\ DifferenceExceeds(j))
                   /\ HasContributionTag(j) =>
                          Out(j).ValidationStatus = <<ContributionTag(j)>>
            /\ (MissingAmount(j) \/ OutOfRange(j)) => ~HasContributionTag(j)
            /\ (/\ OpsScheme(j) /\ ~MissingAmount(j)
                /\ in_schedule[j].Salary.v = 1000000) =>
                   /\ in_schedule[j].Tier2Contribution.v = 50000 => ~HasContributionTag(j)
                   /\ in_schedule[j].Tier2Contribution.v = 45000 =>
                          Out(j).ValidationStatus = <<FlagContribution(50000)>>

\* 539.91 with 27.51 under an "ops" identifier: 5% is 26.9955, the tag cites
\* 27.00.
C11_Witness ==
    /\ Done
    /\ \E j \in RowIds :
           /\ OpsScheme(j)
           /\ in_schedule[j].Salary.v = 53991
           /\ in_schedule[j].Tier2Contribution.v = 2751
           /\ Out(j).ValidationStatus = <<FlagContribution(2700)>>

(***************************************************************************)
(* C12.                                                                    *)
(***************************************************************************)
HasRangeTag(j) == "FLAG_RANGE" \in Tags(Out(j).ValidationStatus)

\* C12: among the rows with both amounts present, the out-of-range tag is
\* given exactly to the salaries strictly below 539.80 or strictly above
\* 61,000: a salary of exactly 539.80 or exactly 61,000 gets no such tag,
\* 539.79 and 61,000.01 get it.
C12_InclusiveSalaryBounds ==
    Done =>
        \A j \in RowIds :
            ~MissingAmount(j) =>
                /\ in_schedule[j].Salary.v \in {53980, 6100000} => ~HasRangeTag(j)
                /\ in_schedule[j].Salary.v \in {53979, 6100001} => HasRangeTag(j)
                /\ HasRangeTag(j) <=> (\/ in_schedule[j].Salary.v < 53980
                                       \/ in_schedule[j].Salary.v > 6100000)

\* A salary of exactly 61,000 passes the range check and the row is resolved.
C12_Witness ==
    /\ Done
    /\ \E j \in RowIds :
           /\ in_schedule[j].Salary.v = 6100000
           /\ ~MissingAmount(j)
           /\ ~HasRangeTag(j)
           /\ Resolved(j)

(***************************************************************************)
(* C13.                                                                    *)
(***************************************************************************)
\* The submitted name of row j is missing or blank.
EmptyName(j) ==
    in_schedule[j].MemberName = NaN \/ Strip(in_schedule[j].MemberName) = EmptyStr

\* C13: a row whose name is blank or missing is accepted by no strategy:
\* no direct, key or fuzzy step accepts it and its match type stays empty,
\* also when the name of the registry entry is empty too.
C13_EmptyNameNeverAccepted ==
    \A j \in 1..(i - 1) :
        EmptyName(j) =>
            /\ schedule_df[j].MatchType = ""
            /\ \A k \in 1..Len(log[j]) : ~log[j][k].accepted

(***************************************************************************)
(* C14.                                                                    *)
(***************************************************************************)
\* The entry at position m of the scheme-wide view has row j's value of col.
SameKey(j, col, m) ==
    IF col = "Contact"
    THEN rows[j].Contact.k = "num" /\ scheme_df[m].Contact.k = "num"
         /\ scheme_df[m].Contact.v = rows[j].Contact.v
    ELSE ColVal(scheme_df[m], col) = ColVal(rows[j], col)

\* C14: a key lookup considers only the first entry, in the order of the
\* view, whose key equals the submitted value: the key is accepted exactly
\* when that entry's name scores at least 85, whatever the later entries
\* with the same key value are, and an accepted key reports that entry.
C14_FirstEntryOnly ==
    \A j \in 1..(i - 1) :
        \A k \in Steps(j, "key") :
            LET col == log[j][k].col
                first == IF \E m \in 1..Len(scheme_df) : SameKey(j, col, m)
                         THEN CHOOSE m \in 1..Len(scheme_df) :
                                  /\ SameKey(j, col, m)
                                  /\ \A n \in 1..(m - 1) : ~SameKey(j, col, n)
                         ELSE 0
            IN  /\ log[j][k].accepted
                       <=> (first /= 0 /\ NameScore(j, scheme_df[first]) >= 8500)
                /\ log[j][k].accepted =>
                       /\ schedule_df[j].SchemeNumber = scheme_df[first].SchemeNumber
                       /\ schedule_df[j].ValidationStatus[Len(schedule_df[j].ValidationStatus)].txt
                              = scheme_df[first].clean_name

\* The first entry with the row's national ID has another name, a later
\* entry with the same national ID has the row's name: the key gives no match.
C14_Witness ==
    /\ Done
    /\ \E j \in RowIds :
           \E k \in Steps(j, "key") :
               \E m, n \in 1..Len(scheme_df) :
                   /\ log[j][k].col = "NIA Number"
                   /\ m < n
                   /\ SameKey(j, "NIA Number", m)
                   /\ SameKey(j, "NIA Number", n)
                   /\ NameScore(j, scheme_df[m]) < 8500
                   /\ NameScore(j, scheme_df[n]) >= 8500
                   /\ ~log[j][k].accepted
                   /\ Out(j).MatchType /= "Ghana Card"

(***************************************************************************)
(* C15.                                                                    *)
(***************************************************************************)
\* C15: no step of validate_schedule changes the caller's submitted batch or
\* either of the caller's registry views: the normalisations, the Scheme
\* Number overwrite and the status are written to the copies.
C15_InputsUnchanged ==
    [][/\ in_schedule' = in_schedule
       /\ in_filtered' = in_filtered
       /\ in_scheme' = in_scheme]_vars

\* The call has returned, the working view was normalised and a row's
\* Scheme Number was overwritten from the registry.
C15_Witness ==
    /\ Done
    /\ in_scheme /= <<>>
    /\ \E m \in 1..Len(in_scheme) : scheme_df[m].NIANumber /= in_scheme[m].NIANumber
    /\ \E j \in RowIds :
           /\ Out(j).MatchType = "Ghana Card"
           /\ Out(j).SchemeNumber /= in_schedule[j].SchemeNumber
           /\ Out(j).NIANumber /= in_schedule[j].NIANumber

(***************************************************************************)
(* C16.                                                                    *)
(***************************************************************************)
\* The forms of the scheme identifier row j was submitted with: normalised,
\* and with a missing one blank.
SubmittedForms(j) == {rows[j].SchemeNumber, SubmittedScheme(j)}

SchemeNumbersOf(df) == { df[m].SchemeNumber : m \in 1..Len(df) }

\* C16: a returned row's Scheme Number differs from its normalised submitted
\* identifier only if its match type is 'Ghana Card', 'SSNIT', 'Contact' or
\* 'Fuzzy Name', and then it is the Scheme Number of an entry of the view
\* that strategy searches (the scheme-wide view for the keys, the employer's
\* view for the fuzzy match); rows of match type 'Direct Scheme' or of empty
\* match type keep the submitted identifier.
C16_SchemeNumberProvenance ==
    Done =>
        \A j \in RowIds :
            /\ Out(j).SchemeNumber \notin SubmittedForms(j) =>
                   \/ /\ Out(j).MatchType \in {"Ghana Card", "SSNIT", "Contact"}
                      /\ Out(j).SchemeNumber \in SchemeNumbersOf(scheme_df)
                   \/ /\ Out(j).MatchType = "Fuzzy Name"
                      /\ Out(j).SchemeNumber \in SchemeNumbersOf(filtered_df)
            /\ Out(j).MatchType \in {"Direct Scheme", ""} =>
                   Out(j).SchemeNumber \in SubmittedForms(j)

\* A row submitted with an identifier the registry does not hold is matched
\* by its contact and returns with the entry's Scheme Number.
C16_Witness ==
    /\ Done
    /\ \E j \in RowIds :
           /\ WellFormedId(j)
           /\ SchemeHit(j) = 0
           /\ Out(j).MatchType = "Contact"
           /\ Out(j).SchemeNumber = scheme_df[KeyHit(j, "Contact")].SchemeNumber
           /\ Out(j).SchemeNumber \notin SubmittedForms(j)

(***************************************************************************)
(* C17.                                                                    *)
(***************************************************************************)
\* The entry row j was matched to, by its match type.
MatchedEntry(j) ==
    CASE schedule_df[j].MatchType = "Direct Scheme" -> scheme_df[SchemeHit(j)]
      [] schedule_df[j].MatchType = "Ghana Card" -> scheme_df[KeyHit(j, "NIA Number")]
      [] schedule_df[j].MatchType = "SSNIT" -> scheme_df[KeyHit(j, "SSNIT Number")]
      [] schedule_df[j].MatchType = "Contact" -> scheme_df[KeyHit(j, "Contact")]
      [] schedule_df[j].MatchType = "Fuzzy Name" -> filtered_df[BestFuzzyEntry(j)]

\* C17: no row's status ever holds the name-mismatch warning: a row matched
\* by the direct match scores at least 50 against the matched entry's name,
\* and a row matched by a key or by the fuzzy fallback at least 85.
C17_NoNameMismatch ==
    \A j \in 1..(i - 1) :
        /\ "NAME_MISMATCH" \notin Tags(schedule_df[j].ValidationStatus)
        /\ schedule_df[j].MatchType = "Direct Scheme" =>
               NameScore(j, MatchedEntry(j)) >= 5000
        /\ schedule_df[j].MatchType \in {"Ghana Card", "SSNIT", "Contact", "Fuzzy Name"} =>
               NameScore(j, MatchedEntry(j)) >= 8500

\* A direct match whose name scores between 50 and 85 returns with the
\* confirmed-match tag alone.
C17_Witness ==
    /\ Done
    /\ \E j \in RowIds :
           /\ schedule_df[j].MatchType = "Direct Scheme"
           /\ NameScore(j, MatchedEntry(j)) >= 5000
           /\ NameScore(j, MatchedEntry(j)) < 8500
           /\ Len(Out(j).ValidationStatus) = 1
           /\ "NAME_MISMATCH" \notin Tags(Out(j).ValidationStatus)

====
